---- MODULE Spec2Model ----
(***************************************************************************)
(* Model of Amazon_Bot/lambda_function.py: the Lex code hook of the        *)
(* RecommendPortfolio intent (validator, dialog responder, dispatcher).    *)
(*                                                                         *)
(* Python strings are sequences of one-character strings, so that len(),   *)
(* int() and float() are computed from the characters.  None is the record *)
(* None; a present slot value v is Str(v).                                 *)
(***************************************************************************)
EXTENDS Integers, Sequences, FiniteSets, TLC

VARIABLES
    event,       \* the intent request; its slot dict is mutated in place
    response,    \* what the last invocation returned or raised
    input,       \* the event as it was handed to the last invocation
    calls,       \* the functions the last invocation entered
    elicits      \* number of ElicitSlot responses returned so far

vars == <<event, response, input, calls, elicits>>

(***************************************************************************)
(* Bounds of the explored inputs.                                          *)
(***************************************************************************)
MaxAgeLen == 2
MaxAmountLen == 4

(***************************************************************************)
(* Values.                                                                 *)
(***************************************************************************)
None == [isNone |-> TRUE]
Str(s) == [isNone |-> FALSE, s |-> s]

NaN == [k |-> "nan"]
Inf(neg) == [k |-> "inf", neg |-> neg]
\* a finite number num / den, den a power of ten
Fin(num, den) == [k |-> "fin", num |-> num, den |-> den]

\* x < c, x > c, x <= c for a parsed number x and an integer literal c;
\* every comparison with not-a-number is False
NumLT(x, c) ==
    CASE x.k = "nan" -> FALSE
      [] x.k = "inf" -> x.neg
      [] OTHER -> x.num < c * x.den

MutNumGE(x, c) ==
    CASE x.k = "nan" -> FALSE
      [] x.k = "inf" -> ~x.neg
      [] OTHER -> x.num >= c * x.den

NumGT(x, c) ==
    CASE x.k = "nan" -> FALSE
      [] x.k = "inf" -> ~x.neg
      [] OTHER -> x.num > c * x.den

MutNumLTStrict(x, c) ==
    CASE x.k = "nan" -> FALSE
      [] x.k = "inf" -> x.neg
      [] OTHER -> x.num < c * x.den

NumLE(x, c) ==
    CASE x.k = "nan" -> FALSE
      [] x.k = "inf" -> x.neg
      [] OTHER -> x.num <= c * x.den

(***************************************************************************)
(* Characters and the numeric grammar of int() and float().                *)
(***************************************************************************)
Digits == {"0", "1", "2", "3", "4", "5", "6", "7", "8", "9"}

DigitVal(c) ==
    CASE c = "0" -> 0 [] c = "1" -> 1 [] c = "2" -> 2 [] c = "3" -> 3
      [] c = "4" -> 4 [] c = "5" -> 5 [] c = "6" -> 6 [] c = "7" -> 7
      [] c = "8" -> 8 [] c = "9" -> 9

IsSpace(c) == c \in {" ", "\t", "\n"}

Lower(c) ==
    CASE c = "I" -> "i" [] c = "N" -> "n" [] c = "F" -> "f" [] c = "A" -> "a"
      [] c = "T" -> "t" [] c = "Y" -> "y" [] c = "E" -> "e" [] OTHER -> c

RECURSIVE LStrip(_)
LStrip(s) ==
    IF s # <<>> /\ IsSpace(Head(s)) THEN LStrip(Tail(s)) ELSE s

RECURSIVE RStrip(_)
RStrip(s) ==
    IF s # <<>> /\ IsSpace(s[Len(s)]) THEN RStrip(SubSeq(s, 1, Len(s) - 1)) ELSE s

Strip(s) == RStrip(LStrip(s))

HasSign(s) == s # <<>> /\ Head(s) \in {"+", "-"}
IsNeg(s) == s # <<>> /\ Head(s) = "-"
Unsigned(s) == IF HasSign(s) THEN Tail(s) ELSE s

\* digits, with single underscores allowed between two digits
DigitRun(s) ==
    /\ s # <<>>
    /\ \A i \in 1..Len(s) : s[i] \in Digits \cup {"_"}
    /\ s[1] # "_" /\ s[Len(s)] # "_"
    /\ \A i \in 1..(Len(s) - 1) : ~(s[i] = "_" /\ s[i + 1] = "_")

IsDigit(c) == c \in Digits
DigitsOf(s) == SelectSeq(s, IsDigit)

RECURSIVE DecVal(_)
DecVal(ds) ==
    IF ds = <<>> THEN 0
    ELSE 10 * DecVal(SubSeq(ds, 1, Len(ds) - 1)) + DigitVal(ds[Len(ds)])

RECURSIVE Pow10(_)
Pow10(n) == IF n = 0 THEN 1 ELSE 10 * Pow10(n - 1)

\* index of the first character of s that is in cs, 0 if there is none
RECURSIVE FindFrom(_, _, _)
FindFrom(s, cs, i) ==
    IF i > Len(s) THEN 0
    ELSE IF s[i] \in cs THEN i
    ELSE FindFrom(s, cs, i + 1)

Find(s, cs) == FindFrom(s, cs, 1)

\* int(n) of a str: the integer, or ValueError
IntLiteral(n) == DigitRun(Unsigned(Strip(n)))
IntValue(n) ==
    LET u == Strip(n)
        v == DecVal(DigitsOf(Unsigned(u)))
    IN IF IsNeg(u) THEN -v ELSE v

MutParseIntZero(n) ==
    IF IntLiteral(n) THEN Fin(IntValue(n), 1) ELSE Fin(0, 1)

parse_int(n) ==
    IF IntLiteral(n) THEN Fin(IntValue(n), 1) ELSE NaN

\* float(n) of a str: decimal literal with optional fraction and exponent,
\* or inf / infinity / nan in any case; anything else is ValueError.
\* The value is kept as the exact fraction num / den: for literals of the
\* lengths explored here the double float(n) returns compares with 5000 as
\* the exact value does.
Lowered(s) == [i \in 1..Len(s) |-> Lower(s[i])]

Mantissa(b) == LET e == Find(b, {"e", "E"}) IN IF e = 0 THEN b ELSE SubSeq(b, 1, e - 1)
Exponent(b) == LET e == Find(b, {"e", "E"}) IN SubSeq(b, e + 1, Len(b))
HasExponent(b) == Find(b, {"e", "E"}) # 0
IntPart(m) == LET d == Find(m, {"."}) IN IF d = 0 THEN m ELSE SubSeq(m, 1, d - 1)
FracPart(m) == LET d == Find(m, {"."}) IN IF d = 0 THEN <<>> ELSE SubSeq(m, d + 1, Len(m))

DecimalLiteral(b) ==
    LET m == Mantissa(b)
        ip == IntPart(m)
        fp == FracPart(m)
    IN /\ ip = <<>> \/ DigitRun(ip)
       /\ fp = <<>> \/ DigitRun(fp)
       /\ ip # <<>> \/ fp # <<>>
       /\ HasExponent(b) => DigitRun(Unsigned(Exponent(b)))

DecimalValue(b, neg) ==
    LET m == Mantissa(b)
        fd == DigitsOf(FracPart(m))
        n0 == DecVal(DigitsOf(IntPart(m)) \o fd)
        ex == IF HasExponent(b) THEN DecVal(DigitsOf(Unsigned(Exponent(b)))) ELSE 0
        exNeg == HasExponent(b) /\ IsNeg(Exponent(b))
        num == IF exNeg THEN n0 ELSE n0 * Pow10(ex)
        den == IF exNeg THEN Pow10(Len(fd)) * Pow10(ex) ELSE Pow10(Len(fd))
    IN Fin(IF neg THEN -num ELSE num, den)

FloatLiteral(n) ==
    LET b == Unsigned(Strip(n))
    IN \/ Lowered(b) \in {<<"i", "n", "f">>, <<"i", "n", "f", "i", "n", "i", "t", "y">>, <<"n", "a", "n">>}
       \/ DecimalLiteral(b)

FloatValue(n) ==
    LET u == Strip(n)
        b == Unsigned(u)
        w == Lowered(b)
    IN CASE w \in {<<"i", "n", "f">>, <<"i", "n", "f", "i", "n", "i", "t", "y">>} -> Inf(IsNeg(u))
         [] w = <<"n", "a", "n">> -> NaN
         [] OTHER -> DecimalValue(b, IsNeg(u))

parse_float(n) ==
    IF FloatLiteral(n) THEN FloatValue(n) ELSE NaN

build_validation_result(is_valid, violated_slot, message_content) ==
    IF message_content = None
    THEN [isValid |-> is_valid, violatedSlot |-> violated_slot]
    ELSE [isValid |-> is_valid, violatedSlot |-> violated_slot,
          message |-> [contentType |-> "PlainText", content |-> message_content]]

(***************************************************************************)
(* Dialog action helpers.                                                  *)
(***************************************************************************)
get_slots(intent_request) == intent_request.currentIntent.slots

elicit_slot(session_attributes, intent_name, slots, slot_to_elicit, message) ==
    [sessionAttributes |-> session_attributes,
     dialogAction |-> [type |-> "ElicitSlot",
                       intentName |-> intent_name,
                       slots |-> slots,
                       slotToElicit |-> slot_to_elicit,
                       message |-> message]]

MutDelegateDropsSession(session_attributes, slots) ==
    [sessionAttributes |-> None,
     dialogAction |-> [type |-> "Delegate", slots |-> slots]]

delegate(session_attributes, slots) ==
    [sessionAttributes |-> session_attributes,
     dialogAction |-> [type |-> "Delegate", slots |-> slots]]

close(session_attributes, fulfillment_state, message) ==
    [sessionAttributes |-> session_attributes,
     dialogAction |-> [type |-> "Close",
                       fulfillmentState |-> fulfillment_state,
                       message |-> message]]

(***************************************************************************)
(* The validator.  Message texts are the source's literals with their      *)
(* indentation collapsed; the amount message carries the parsed amount.    *)
(***************************************************************************)
EmptyNameText == [text |-> "You provided an empty name... Please try again."]
TooYoungText ==
    [text |-> "You have to be at least 1 year old to seek investment advise... Please provide a different age."]
TooOldText ==
    [text |-> "This service is only valid for people less than 65 years old... Sorry, but we cannot help you today."]
AmountText(investment_amount) ==
    [text |-> "You've got to be kidding me?!  I can't provide advise for $ {investment_amount}! Please provide a high amount and try again.",
     investment_amount |-> investment_amount]
RiskLevelText == [text |-> "I didn't get that, please try again..."]

valid_levels ==
    <<Str(<<"M", "a", "x", "i", "m", "u", "m">>), Str(<<"V", "e", "r", "y", " ", "H", "i", "g", "h">>), Str(<<"H", "i", "g", "h">>), Str(<<"M", "i", "d">>),
      Str(<<"L", "o", "w">>), Str(<<"V", "e", "r", "y", " ", "L", "o", "w">>), Str(<<"N", "o", "n", "e">>)>>

InList(x, list) == \E i \in 1..Len(list) : list[i] = x

\* the age rules tried before the name rule
MutValidateAgeFirst(first_name, age, investment_amount, risk_level, intent_request) ==
    IF age # None /\ NumLT(parse_int(age.s), 1)
    THEN build_validation_result(FALSE, "age", TooYoungText)
    ELSE IF age # None /\ NumGT(parse_int(age.s), 64)
    THEN build_validation_result(FALSE, "age", TooOldText)
    ELSE IF first_name # None /\ Len(first_name.s) = 0
    THEN build_validation_result(FALSE, "firstName", EmptyNameText)
    ELSE IF investment_amount # None /\ NumLE(parse_float(investment_amount.s), 5000)
    THEN build_validation_result(FALSE, "investmentAmount",
                                 AmountText(parse_float(investment_amount.s)))
    ELSE IF risk_level # None /\ ~InList(risk_level, valid_levels)
    THEN build_validation_result(FALSE, "riskLevel", RiskLevelText)
    ELSE build_validation_result(TRUE, None, None)

\* "if not first_name": an absent name is reported like an empty one
MutValidateFalsyName(first_name, age, investment_amount, risk_level, intent_request) ==
    IF first_name = None \/ Len(first_name.s) = 0
    THEN build_validation_result(FALSE, "firstName", EmptyNameText)
    ELSE IF age # None /\ NumLT(parse_int(age.s), 1)
    THEN build_validation_result(FALSE, "age", TooYoungText)
    ELSE IF age # None /\ NumGT(parse_int(age.s), 64)
    THEN build_validation_result(FALSE, "age", TooOldText)
    ELSE IF investment_amount # None /\ NumLE(parse_float(investment_amount.s), 5000)
    THEN build_validation_result(FALSE, "investmentAmount",
                                 AmountText(parse_float(investment_amount.s)))
    ELSE IF risk_level # None /\ ~InList(risk_level, valid_levels)
    THEN build_validation_result(FALSE, "riskLevel", RiskLevelText)
    ELSE build_validation_result(TRUE, None, None)

validate_data(first_name, age, investment_amount, risk_level, intent_request) ==
    IF first_name # None /\ Len(first_name.s) = 0
    THEN build_validation_result(FALSE, "firstName", EmptyNameText)
    ELSE IF age # None /\ NumLT(parse_int(age.s), 1)
    THEN build_validation_result(FALSE, "age", TooYoungText)
    ELSE IF age # None /\ NumGT(parse_int(age.s), 64)
    THEN build_validation_result(FALSE, "age", TooOldText)
    ELSE IF investment_amount # None /\ NumLE(parse_float(investment_amount.s), 5000)
    THEN build_validation_result(FALSE, "investmentAmount",
                                 AmountText(parse_float(investment_amount.s)))
    ELSE IF risk_level # None /\ ~InList(risk_level, valid_levels)
    THEN build_validation_result(FALSE, "riskLevel", RiskLevelText)
    ELSE build_validation_result(TRUE, None, None)

(***************************************************************************)
(* The intent handler.  An operator that can raise returns                 *)
(* [ret, slots, calls]: what it returned or raised, the request's slot     *)
(* dict as it left it, and the functions entered.                          *)
(***************************************************************************)
risk_rec_map ==
    (Str(<<"N", "o", "n", "e">>) :> "100% bonds (AGG), 0% equities (SPY)") @@
    (Str(<<"V", "e", "r", "y", " ", "L", "o", "w">>) :> "80% bonds (AGG), 20% equities (SPY)") @@
    (Str(<<"L", "o", "w">>) :> "60% bonds (AGG), 40% equities (SPY)") @@
    (Str(<<"M", "i", "d">>) :> "40% bonds (AGG), 60% equities (SPY)") @@
    (Str(<<"H", "i", "g", "h">>) :> "20% bonds (AGG), 80% equities (SPY)") @@
    (Str(<<"V", "e", "r", "y", " ", "H", "i", "g", "h">>) :> "0% bonds (AGG), 100% equities (SPY)")

\* "{}".format(v): the string itself, "None" for None
Format(v) == IF v = None THEN <<"N", "o", "n", "e">> ELSE v.s

CloseText(first_name, initial_recommendation) ==
    [text |-> "{} thank you for your information; based on the risk level you defined, my recommendation is to choose an investment portfolio with {}",
     first_name |-> Format(first_name),
     initial_recommendation |-> initial_recommendation]

Raise(exception, arg) == [raised |-> exception, arg |-> arg]

\* the violated slot is elicited but left in the slot dict
MutDialogKeepsSlot(intent_request, validation_result) ==
    IF ~validation_result.isValid
    THEN [ret |-> elicit_slot(intent_request.sessionAttributes,
                              intent_request.currentIntent.name,
                              get_slots(intent_request),
                              validation_result.violatedSlot,
                              validation_result.message),
          slots |-> get_slots(intent_request),
          calls |-> {"recommend_portfolio", "validate_data"}]
    ELSE [ret |-> delegate(intent_request.sessionAttributes, get_slots(intent_request)),
          slots |-> get_slots(intent_request),
          calls |-> {"recommend_portfolio", "validate_data"}]

\* the dialog phase, given the validator's result
DialogCodeHook(intent_request, validation_result) ==
    IF ~validation_result.isValid
    THEN [ret |-> elicit_slot(intent_request.sessionAttributes,
                              intent_request.currentIntent.name,
                              [get_slots(intent_request)
                                 EXCEPT ![validation_result.violatedSlot] = None],
                              validation_result.violatedSlot,
                              validation_result.message),
          slots |-> [get_slots(intent_request)
                       EXCEPT ![validation_result.violatedSlot] = None],
          calls |-> {"recommend_portfolio", "validate_data"}]
    ELSE [ret |-> delegate(intent_request.sessionAttributes, get_slots(intent_request)),
          slots |-> get_slots(intent_request),
          calls |-> {"recommend_portfolio", "validate_data"}]

\* the fulfillment phase
Fulfillment(intent_request, first_name, risk_level) ==
    IF risk_level \in DOMAIN risk_rec_map
    THEN [ret |-> close(intent_request.sessionAttributes,
                        "Fulfilled",
                        [contentType |-> "PlainText",
                         content |-> CloseText(first_name, risk_rec_map[risk_level])]),
          slots |-> get_slots(intent_request),
          calls |-> {"recommend_portfolio"}]
    ELSE [ret |-> Raise("KeyError", risk_level),
          slots |-> get_slots(intent_request),
          calls |-> {"recommend_portfolio"}]

\* the validator is run, and its violation elicited, in the fulfillment phase too
MutRecommendAlwaysValidates(intent_request) ==
    IF \/ intent_request.invocationSource = "DialogCodeHook"
       \/ ~validate_data(get_slots(intent_request)["firstName"],
                         get_slots(intent_request)["age"],
                         get_slots(intent_request)["investmentAmount"],
                         get_slots(intent_request)["riskLevel"],
                         intent_request).isValid
    THEN DialogCodeHook(intent_request,
                        validate_data(get_slots(intent_request)["firstName"],
                                      get_slots(intent_request)["age"],
                                      get_slots(intent_request)["investmentAmount"],
                                      get_slots(intent_request)["riskLevel"],
                                      intent_request))
    ELSE Fulfillment(intent_request,
                     get_slots(intent_request)["firstName"],
                     get_slots(intent_request)["riskLevel"])

recommend_portfolio(intent_request) ==
    IF intent_request.invocationSource = "DialogCodeHook"
    THEN DialogCodeHook(intent_request,
                        validate_data(get_slots(intent_request)["firstName"],
                                      get_slots(intent_request)["age"],
                                      get_slots(intent_request)["investmentAmount"],
                                      get_slots(intent_request)["riskLevel"],
                                      intent_request))
    ELSE Fulfillment(intent_request,
                     get_slots(intent_request)["firstName"],
                     get_slots(intent_request)["riskLevel"])

(***************************************************************************)
(* Dispatcher and entry point.                                             *)
(***************************************************************************)
\* every intent name is routed to the handler
MutDispatchAnyIntent(intent_request) ==
    LET r == recommend_portfolio(intent_request)
    IN [r EXCEPT !.calls = @ \cup {"dispatch"}]

dispatch(intent_request) ==
    LET intent_name == intent_request.currentIntent.name
    IN IF intent_name = "RecommendPortfolio"
       THEN LET r == recommend_portfolio(intent_request)
            IN [r EXCEPT !.calls = @ \cup {"dispatch"}]
       ELSE [ret |-> Raise("Exception", <<"Intent with name ", intent_name, " not supported">>),
             slots |-> get_slots(intent_request),
             calls |-> {"dispatch"}]

lambda_handler(ev, context) ==
    LET r == dispatch(ev)
    IN [r EXCEPT !.calls = @ \cup {"lambda_handler"}]

(***************************************************************************)
(* Requests.                                                               *)
(***************************************************************************)
SlotNames == {"firstName", "age", "investmentAmount", "riskLevel"}
Sources == {"DialogCodeHook", "FulfillmentCodeHook"}
IntentNames == {"RecommendPortfolio", "recommendPortfolio", "Unknown"}
SessionAttributes == {None, [userId |-> "u1"]}

\* all strings over chars of length at most n
StringsUpTo(chars, n) == UNION {[1..k -> chars] : k \in 0..n}

AgeChars == {"0", "1", "4", "5", "6", "-", "a"}
AmountChars == {"0", "1", "5", ".", "-", "a"}

FirstNames == {None, Str(<<>>), Str(<<"J", "o">>)}
Ages ==
    {None, Str(<<"3", "0">>), Str(<<"1">>), Str(<<"6", "4">>), Str(<<"0">>), Str(<<"6", "5">>), Str(<<"2", "0", "0">>),
     Str(<<"-", "5">>), Str(<<"a", "b", "c">>), Str(<<"3", ".", "5">>), Str(<<>>)}
Amounts ==
    {None, Str(<<"1", "0", "0", "0", "0">>), Str(<<"5", "0", "0", "1">>), Str(<<"5", "0", "0", "0">>), Str(<<"3", "0", "0", "0">>), Str(<<"5", "0", "0", "0", ".", "5">>),
     Str(<<"1", "e", "4">>), Str(<<"a", "b", "c">>), Str(<<"n", "a", "n">>), Str(<<"i", "n", "f">>), Str(<<"-", "i", "n", "f">>)}
RiskLevels ==
    {None, Str(<<"M", "a", "x", "i", "m", "u", "m">>), Str(<<"V", "e", "r", "y", " ", "H", "i", "g", "h">>), Str(<<"H", "i", "g", "h">>), Str(<<"M", "i", "d">>), Str(<<"L", "o", "w">>),
     Str(<<"V", "e", "r", "y", " ", "L", "o", "w">>), Str(<<"N", "o", "n", "e">>), Str(<<"m", "i", "d">>), Str(<<>>)}

Request(name, fn, ag, am, rl, sa) ==
    [currentIntent |-> [name |-> name,
                        slots |-> [firstName |-> fn, age |-> ag,
                                   investmentAmount |-> am, riskLevel |-> rl]],
     invocationSource |-> "DialogCodeHook",
     sessionAttributes |-> sa]

NoResponse == [pending |-> TRUE]

InitFrom(names, fns, ags, ams, rls, sas) ==
    /\ event \in {Request(name, fn, ag, am, rl, sa) :
                    name \in names, fn \in fns, ag \in ags, am \in ams,
                    rl \in rls, sa \in sas}
    /\ response = NoResponse
    /\ input = event
    /\ calls = {}
    /\ elicits = 0

\* a conversation turn's request with any collected slot values
Init == InitFrom(IntentNames, FirstNames, Ages, Amounts, RiskLevels, SessionAttributes)

\* every age string, the other slots valid or absent
InitAge ==
    InitFrom({"RecommendPortfolio", "Unknown"}, {None, Str(<<"J", "o">>)},
             {Str(s) : s \in StringsUpTo(AgeChars, MaxAgeLen)},
             {None, Str(<<"5", "0", "0", "1">>)}, {None, Str(<<"M", "i", "d">>)}, SessionAttributes)

\* every amount string, the other slots valid or absent
InitAmount ==
    InitFrom({"RecommendPortfolio", "Unknown"}, {None, Str(<<"J", "o">>)}, {None, Str(<<"6", "4">>)},
             {Str(s) : s \in StringsUpTo(AmountChars, MaxAmountLen)},
             {None, Str(<<"M", "i", "d">>)}, {None})

(***************************************************************************)
(* One invocation of the code hook by Lex, on the slot dict the previous   *)
(* invocation left.                                                        *)
(***************************************************************************)
IsElicitSlot(r) == "dialogAction" \in DOMAIN r /\ r.dialogAction.type = "ElicitSlot"

\* the invocation returns: the response goes to Lex, the slot dict stays as
\* the handler left it
Returned(out) ==
    /\ event' = [input' EXCEPT !.currentIntent.slots = out.slots]
    /\ response' = out.ret
    /\ calls' = out.calls
    /\ elicits' = IF IsElicitSlot(out.ret) THEN elicits + 1 ELSE elicits

DialogTurn ==
    /\ input' = [event EXCEPT !.invocationSource = "DialogCodeHook"]
    /\ Returned(lambda_handler([event EXCEPT !.invocationSource = "DialogCodeHook"], None))

FulfillmentTurn ==
    /\ input' = [event EXCEPT !.invocationSource = "FulfillmentCodeHook"]
    /\ Returned(lambda_handler([event EXCEPT !.invocationSource = "FulfillmentCodeHook"], None))

Next == DialogTurn \/ FulfillmentTurn

Spec == Init /\ [][Next]_vars

\* the numeric slots over every string of the bounded alphabets
InitNumeric == InitAge \/ InitAmount
SpecNumeric == InitNumeric /\ [][Next]_vars

(***************************************************************************)
(* Vocabulary of the properties.                                           *)
(***************************************************************************)
Invoked == response # NoResponse
Routed == "recommend_portfolio" \in calls
InSlots == input.currentIntent.slots
DialogRun == Invoked /\ Routed /\ input.invocationSource = "DialogCodeHook"
FulfillmentRun == Invoked /\ Routed /\ input.invocationSource = "FulfillmentCodeHook"

IsDelegate(r) == "dialogAction" \in DOMAIN r /\ r.dialogAction.type = "Delegate"
IsClose(r) == "dialogAction" \in DOMAIN r /\ r.dialogAction.type = "Close"
IsRaise(r) == "raised" \in DOMAIN r

\* what the validator reports on a slot bag
Verdict(slots) ==
    validate_data(slots["firstName"], slots["age"], slots["investmentAmount"],
                  slots["riskLevel"], input)

Without(slots, s) == [t \in SlotNames |-> IF t = s THEN None ELSE slots[t]]
Only(slots, s) == [t \in SlotNames |-> IF t = s THEN slots[t] ELSE None]
Filled(slots) == Cardinality({s \in SlotNames : slots[s] # None})

ElicitsFor(v) ==
    /\ IsElicitSlot(response)
    /\ response.dialogAction.slotToElicit = v.violatedSlot
    /\ response.dialogAction.message = v.message
    /\ response.dialogAction.slots = Without(InSlots, v.violatedSlot)
    /\ InSlots[v.violatedSlot] # None

(***************************************************************************)
(* C1: a dialog-phase request whose slot bag fails validation gets an      *)
(* ElicitSlot response that names the slot the validator reported, carries *)
(* the validator's message, and returns the input slot bag with exactly    *)
(* that slot set to None, every other slot keeping its input value.        *)
(***************************************************************************)
C1_ElicitClearsViolatedSlot ==
    (DialogRun /\ ~Verdict(InSlots).isValid) => ElicitsFor(Verdict(InSlots))

C1_Witness ==
    /\ DialogRun
    /\ InSlots["investmentAmount"] = Str(<<"3", "0", "0", "0">>)
    /\ InSlots["firstName"] = Str(<<"J", "o">>)
    /\ IsElicitSlot(response)
    /\ response.dialogAction.slotToElicit = "investmentAmount"
    /\ response.dialogAction.slots["investmentAmount"] = None
    /\ response.dialogAction.slots["firstName"] = Str(<<"J", "o">>)

(***************************************************************************)
(* C2: a dialog-phase request whose slot bag passes validation gets a      *)
(* Delegate response whose slots are the input slot bag, unchanged, and    *)
(* whose sessionAttributes are the request's.                              *)
(***************************************************************************)
C2_DelegateUnchanged ==
    (DialogRun /\ Verdict(InSlots).isValid) =>
        /\ response = [sessionAttributes |-> input.sessionAttributes,
                       dialogAction |-> [type |-> "Delegate", slots |-> InSlots]]
        /\ event.currentIntent.slots = InSlots

C2_Witness ==
    /\ DialogRun
    /\ IsDelegate(response)
    /\ InSlots = [firstName |-> Str(<<"J", "o">>), age |-> Str(<<"3", "0">>),
                  investmentAmount |-> Str(<<"1", "0", "0", "0", "0">>), riskLevel |-> Str(<<"M", "i", "d">>)]
    /\ response.dialogAction.slots = InSlots
    /\ response.sessionAttributes = [userId |-> "u1"]

TableKeys ==
    {Str(<<"N", "o", "n", "e">>), Str(<<"V", "e", "r", "y", " ", "L", "o", "w">>), Str(<<"L", "o", "w">>), Str(<<"M", "i", "d">>), Str(<<"H", "i", "g", "h">>), Str(<<"V", "e", "r", "y", " ", "H", "i", "g", "h">>)}

(***************************************************************************)
(* C3: a fulfillment-phase request whose riskLevel is one of the six table *)
(* keys gets Close / Fulfilled with a message embedding the firstName      *)
(* value and the table's text for that riskLevel; the validator is not     *)
(* called, whatever age, investmentAmount and firstName are.               *)
(***************************************************************************)
C3_FulfillmentCloses ==
    (FulfillmentRun /\ InSlots["riskLevel"] \in TableKeys) =>
        /\ IsClose(response)
        /\ response.dialogAction.fulfillmentState = "Fulfilled"
        /\ response.sessionAttributes = input.sessionAttributes
        /\ response.dialogAction.message.contentType = "PlainText"
        /\ InSlots["firstName"] # None =>
             response.dialogAction.message.content.first_name = InSlots["firstName"].s
        /\ response.dialogAction.message.content.initial_recommendation
             = risk_rec_map[InSlots["riskLevel"]]
        /\ "validate_data" \notin calls

\* firstName "Jo", riskLevel "High", and an age and an amount the validator rejects
C3_Witness ==
    /\ FulfillmentRun
    /\ InSlots = [firstName |-> Str(<<"J", "o">>), age |-> Str(<<"2", "0", "0">>),
                  investmentAmount |-> Str(<<"3", "0", "0", "0">>), riskLevel |-> Str(<<"H", "i", "g", "h">>)]
    /\ IsClose(response)
    /\ response.dialogAction.message.content.first_name = <<"J", "o">>
    /\ response.dialogAction.message.content.initial_recommendation
         = "20% bonds (AGG), 80% equities (SPY)"

RuleOrder == <<"firstName", "age", "investmentAmount", "riskLevel">>

Rejected(slots) == {i \in 1..Len(RuleOrder) : ~Verdict(Only(slots, RuleOrder[i])).isValid}

Earliest(is) == CHOOSE i \in is : \A j \in is : i <= j

ReportsEarliest(v, bad) ==
    IF bad = {}
    THEN v.isValid /\ v.violatedSlot = None
    ELSE /\ ~v.isValid
         /\ v.violatedSlot = RuleOrder[Earliest(bad)]
         /\ InSlots[v.violatedSlot] # None
         /\ response.dialogAction.slotToElicit = v.violatedSlot

(***************************************************************************)
(* C4: the validator reports the first violation in the order firstName,   *)
(* age, investmentAmount, riskLevel: the reported slot is the earliest     *)
(* slot of that order that the validator rejects on its own, it is a       *)
(* present slot, and a bag with no such slot is valid.                     *)
(***************************************************************************)
C4_FirstViolationWins ==
    DialogRun => ReportsEarliest(Verdict(InSlots), Rejected(InSlots))

C4_Witness ==
    /\ DialogRun
    /\ InSlots["firstName"] = Str(<<>>)
    /\ InSlots["age"] = Str(<<"2", "0", "0">>)
    /\ InSlots["investmentAmount"] = Str(<<"3", "0", "0", "0">>)
    /\ Rejected(InSlots) = {1, 2, 3}
    /\ response.dialogAction.slotToElicit = "firstName"

AgeOutcome(n, v) ==
    IF 1 <= n /\ n <= 64
    THEN v.isValid /\ IsDelegate(response)
    ELSE /\ ~v.isValid
         /\ v.violatedSlot = "age"
         /\ IsElicitSlot(response)
         /\ response.dialogAction.slotToElicit = "age"

AtMost5000(a) == IF a.k = "inf" THEN a.neg ELSE a.num <= 5000 * a.den

AmountOutcome(a, v) ==
    IF AtMost5000(a)
    THEN /\ ~v.isValid
         /\ v.violatedSlot = "investmentAmount"
         /\ IsElicitSlot(response)
         /\ response.dialogAction.slotToElicit = "investmentAmount"
    ELSE v.isValid \/ v.violatedSlot # "investmentAmount"

(***************************************************************************)
(* C6: with firstName and age valid or absent, a numeric investmentAmount  *)
(* of 5000 or less is reported with violatedSlot = investmentAmount, and   *)
(* one above 5000 is not reported.                                         *)
(***************************************************************************)
C6_AmountThreshold ==
    (/\ DialogRun
     /\ InSlots["investmentAmount"] # None
     /\ parse_float(InSlots["investmentAmount"].s) # NaN
     /\ Verdict(Without(Without(InSlots, "investmentAmount"), "riskLevel")).isValid)
    => AmountOutcome(parse_float(InSlots["investmentAmount"].s), Verdict(InSlots))

C6_Witness ==
    /\ DialogRun
    /\ InSlots["investmentAmount"] = Str(<<"5", "0", "0", "0">>)
    /\ InSlots["age"] = Str(<<"6", "4">>)
    /\ IsElicitSlot(response)
    /\ response.dialogAction.slotToElicit = "investmentAmount"

(***************************************************************************)
(* C7: dispatch enters recommend_portfolio exactly when the intent name is *)
(* "RecommendPortfolio"; any other name raises the unsupported-intent      *)
(* exception and yields no ElicitSlot, Delegate or Close response,         *)
(* whatever the slots and the invocation source.                           *)
(***************************************************************************)
C7_DispatchRouting ==
    Invoked =>
        /\ Routed <=> input.currentIntent.name = "RecommendPortfolio"
        /\ input.currentIntent.name # "RecommendPortfolio" =>
             /\ response = Raise("Exception",
                                 <<"Intent with name ", input.currentIntent.name,
                                   " not supported">>)
             /\ ~IsElicitSlot(response) /\ ~IsDelegate(response) /\ ~IsClose(response)
             /\ event.currentIntent.slots = InSlots

C7_Witness ==
    /\ Invoked
    /\ input.currentIntent.name = "Unknown"
    /\ input.invocationSource = "FulfillmentCodeHook"
    /\ InSlots["riskLevel"] = Str(<<"H", "i", "g", "h">>)
    /\ IsRaise(response)
    /\ ~Routed

Malformed(s, v) == IF s = "age" THEN ~IntLiteral(v.s) ELSE ~FloatLiteral(v.s)
Parsed(s, v) == IF s = "age" THEN parse_int(v.s) ELSE parse_float(v.s)

(***************************************************************************)
(* C8: a present age that int() rejects, or a present investmentAmount     *)
(* that float() rejects, becomes not-a-number and is not reported: with    *)
(* the other slots valid or absent the dialog phase returns Delegate with  *)
(* the malformed value still in the slot bag.                              *)
(***************************************************************************)
C8_MalformedNumberPasses ==
    DialogRun =>
        \A s \in {"age", "investmentAmount"} :
            (/\ InSlots[s] # None
             /\ Malformed(s, InSlots[s])
             /\ Verdict(Without(InSlots, s)).isValid)
            => /\ Parsed(s, InSlots[s]) = NaN
               /\ IsDelegate(response)
               /\ response.dialogAction.slots = InSlots
               /\ event.currentIntent.slots[s] = InSlots[s]

C8_Witness ==
    /\ DialogRun
    /\ InSlots["age"] = Str(<<"1", "a">>)
    /\ IsDelegate(response)
    /\ response.dialogAction.slots["age"] = Str(<<"1", "a">>)

IsFulfilled(r) == IsClose(r) /\ r.dialogAction.fulfillmentState = "Fulfilled"

(***************************************************************************)
(* C9: whenever the dialog phase has returned Delegate for a slot bag with *)
(* all four slots filled, a following fulfillment invocation on that slot  *)
(* bag returns Close with fulfillmentState "Fulfilled".                    *)
(***************************************************************************)
C9_DelegateImpliesFulfilled ==
    [][(/\ IsDelegate(response)
        /\ Filled(event.currentIntent.slots) = 4
        /\ FulfillmentTurn)
       => IsFulfilled(response')]_vars

ElicitTurnShrinks ==
    IsElicitSlot(response') =>
        /\ event.currentIntent.slots[response'.dialogAction.slotToElicit] # None
        /\ Filled(event'.currentIntent.slots) = Filled(event.currentIntent.slots) - 1
        /\ Filled(event'.currentIntent.slots) < Filled(event.currentIntent.slots)

\* the dialog phase run again and again on the slot dict it returned answers
\* Delegate after at most n ElicitSlot responses
RECURSIVE DelegatesWithin(_, _)
DelegatesWithin(req, n) ==
    LET out == lambda_handler(req, None)
    IN \/ IsDelegate(out.ret)
       \/ /\ n > 0
          /\ IsElicitSlot(out.ret)
          /\ DelegatesWithin([req EXCEPT !.currentIntent.slots = out.slots], n - 1)

(***************************************************************************)
(* C10: feeding each ElicitSlot response's slot bag back to the dialog     *)
(* phase, every ElicitSlot turn removes one filled slot, the elicited slot *)
(* was filled before the turn, there are at most 4 ElicitSlot responses,   *)
(* and a Delegate response is reached.                                     *)
(***************************************************************************)
C10_ElicitLoopTerminates ==
    /\ [][ElicitTurnShrinks]_vars
    /\ [](elicits <= Cardinality(SlotNames))
    /\ [](event.currentIntent.name = "RecommendPortfolio" =>
            DelegatesWithin([event EXCEPT !.invocationSource = "DialogCodeHook"],
                            Cardinality(SlotNames)))

\* four invalid slots were elicited one after the other, then Delegate
C10_Witness ==
    /\ elicits = 4
    /\ IsDelegate(response)
    /\ Filled(event.currentIntent.slots) = 0

====
